---- MODULE Spec2Model ----
(***************************************************************************)
(* Case-parallel evaluation drivers of extreme-weather-bench-paper:        *)
(* src/plots/compute_tc_tracks.py (per-case joblib fan-out, HRES           *)
(* primary/fallback merge, tc_tracks.pkl rewritten after every model) and  *)
(* the src/data/run_*_cases.py drivers (one library batch run and one     *)
(* results pickle per model flag, HRES concatenated from two archives).    *)
(* The evaluation library, joblib, pickle and the operating system are     *)
(* collaborators: their outcomes (a case yields data, yields nothing, or   *)
(* raises; a source opens or fails to open; the process is killed) are     *)
(* nondeterministic choices of the environment.                            *)
(***************************************************************************)
EXTENDS Integers, Sequences, FiniteSets, TLC

\* ------------------------------------------------------------------ bounds
\* largest number of cases in the loaded case collection
MaxCases == 2

\* ------------------------------------------------------- program constants
\* pd.Timestamp("2023-01-01"), the early/late cutoff, as yyyymmdd
Cutoff == 20230101

\* the drivers modelled
Drivers == {"compute_tc_tracks", "run_tc_cases", "run_ar_cases", "run_heat_cases"}

\* The model blocks of a driver in source order.  Every driver has more blocks
\* than are listed; the listed ones are one of each shape the driver has (HRES
\* with its two archives, a lazily opened CIRA source, an Icechunk source
\* opened when the forecast object is built); the others repeat these shapes.
Blocks(d) ==
    IF d = "compute_tc_tracks" THEN <<"HRES", "CIRA_FOURv2", "BB_AIFS">>
    ELSE IF d = "run_heat_cases" THEN <<"aifs", "hres">>
    ELSE <<"hres", "cira_fourv2">>

\* the forecast source a block evaluates first
PrimarySource(m) ==
    CASE m \in {"HRES", "hres"} -> "WB2_HRES"
      [] m \in {"CIRA_FOURv2", "cira_fourv2"} -> "CIRA_FOURv2"
      [] OTHER -> "BB_AIFS"

\* Sources whose constructor performs the network open: ArraylakeForecast
\* prefetches in __post_init__, get_bb_tc_forecast calls open_icechunk_dataset.
\* ZarrForecast and KerchunkForecast open inside the evaluation pipeline.
OpensOnConstruct(s) == s \in {"BB_HRES", "BB_AIFS"}

\* ------------------------------------------------------------------- state
VARIABLES
    driver,        \* which script this process image is
    pc,            \* position of the driver process
    restarted,     \* history: this process is not the first one
    flags,         \* model flags of the current invocation (args.run_*)
    ewb_cases,     \* the loaded case collection: sequence of case records
    blk,           \* index of the current model block
    cache,         \* forecast objects constructed in this process
    phase,         \* "primary" or "fallback" run of the current block
    tasks,         \* case ids handed to the current parallel run, in order
    slots,         \* per task: the returned tuple, or Pending
    results,       \* the results list of the current block
    bb_results,    \* what the fallback HRES run returned
    hres_primary,  \* history: what the primary HRES run returned
    error,         \* history: what ended the process ("none", "case", "open", "library")
    survived,      \* history: models checkpointed when the previous process was killed
    evals,         \* history: process_case / library calls of this invocation
    tc_dict,       \* in-memory nested dictionary of compute_tc_tracks
    tables,        \* in-memory result tables of a run_*_cases block
    disk,          \* saved_data directory: path -> file
    opens,         \* history: constructor calls per forecast source in this process
    inp,           \* arguments of the function applied on its own (function studies)
    out            \* what the applications returned, in order

vars == <<driver, pc, restarted, flags, ewb_cases, blk, cache, phase, tasks,
          slots, results, bb_results, hres_primary, error, survived, evals,
          tc_dict, tables, disk, opens, inp, out>>

\* ----------------------------------------------------------------- helpers
EmptyDict == [x \in {} |-> x]

DictSet(d, k, v) == [x \in DOMAIN d \cup {k} |-> IF x = k THEN v ELSE d[x]]

Range(s) == {s[i] : i \in DOMAIN s}

RECURSIVE SetToSeq(_)
\* ascending enumeration of a finite set of integers
SetToSeq(S) ==
    IF S = {} THEN <<>>
    ELSE LET x == CHOOSE y \in S : \A z \in S : y <= z
         IN <<x>> \o SetToSeq(S \ {x})

RECURSIVE SelectSeqIdx(_, _)
SelectSeqIdx(s, S) ==
    IF s = <<>> THEN <<>>
    ELSE (IF Head(s).case_id_number \in S THEN <<Head(s)>> ELSE <<>>)
         \o SelectSeqIdx(Tail(s), S)

\* CaseCollection.select_cases("case_id_number", ids): the cases whose id is
\* listed, in collection order
select_cases(coll, ids) == SelectSeqIdx(coll, Range(ids))

CaseIds(coll) == {coll[i].case_id_number : i \in DOMAIN coll}

\* ---------------------------------------------------------------- pickling
\* A pickle stream is PROTO, the payload opcodes, STOP.  A dictionary is
\* written as one SETITEM per key, a table as one ROW per record.
Tok(op, k, v) == [op |-> op, k |-> k, v |-> v]

PROTO == Tok("PROTO", 0, <<>>)

STOP == Tok("STOP", 0, <<>>)

\* a file that does not exist / a file as sequence of opcodes
NoFile == [exists |-> FALSE, bytes |-> <<>>]

File(b) == [exists |-> TRUE, bytes |-> b]

ModelsIn(fd) == {m \in {"HRES", "CIRA_FOURv2", "BB_AIFS"} : m \in DOMAIN fd}

RECURSIVE PickleForecastData(_, _)
PickleForecastData(fd, ms) ==
    IF ms = {} THEN <<>>
    ELSE LET m == CHOOSE x \in ms : TRUE
         IN <<Tok("FD", m, fd[m])>> \o PickleForecastData(fd, ms \ {m})

RECURSIVE PickleCases(_, _)
PickleCases(d, ks) ==
    IF ks = <<>> THEN <<>>
    ELSE LET c == Head(ks)
         IN <<Tok("CASE", c, <<d[c].target_data>>)>>
            \o PickleForecastData(d[c].forecast_data,
                                  ModelsIn(d[c].forecast_data))
            \o PickleCases(d, Tail(ks))

\* pickle.dumps of the nested tc_dict
DumpsDict(d) == <<PROTO>> \o PickleCases(d, SetToSeq(DOMAIN d)) \o <<STOP>>

\* pickle.dumps of a result table (DataFrame.to_pickle)
DumpsTable(t) == <<PROTO>> \o [i \in 1..Len(t) |-> Tok("ROW", i, <<t[i]>>)]
                 \o <<STOP>>

\* pickle.load reads one stream from the start of the file: it needs the
\* PROTO opcode first and stops at the first STOP opcode
Loadable(f) ==
    /\ f.exists
    /\ Len(f.bytes) >= 2
    /\ f.bytes[1].op = "PROTO"
    /\ \E i \in DOMAIN f.bytes : f.bytes[i].op = "STOP"

\* the opcodes pickle.load consumes: up to and including the first STOP
FirstStream(b) ==
    LET stop == CHOOSE i \in DOMAIN b :
                   /\ b[i].op = "STOP"
                   /\ \A j \in 1..(i-1) : b[j].op # "STOP"
    IN SubSeq(b, 1, stop)

RECURSIVE UnpickleDict(_, _, _)
\* replay the opcodes: CASE starts an entry, FD adds a model to the current one
UnpickleDict(b, cur, d) ==
    IF b = <<>> THEN d
    ELSE LET t == Head(b)
         IN IF t.op = "CASE"
            THEN UnpickleDict(Tail(b), t.k,
                   DictSet(d, t.k, [target_data |-> t.v[1],
                                    forecast_data |-> EmptyDict]))
            ELSE IF t.op = "FD"
            THEN UnpickleDict(Tail(b), cur,
                   DictSet(d, cur, [target_data |-> d[cur].target_data,
                                    forecast_data |->
                                       DictSet(d[cur].forecast_data, t.k, t.v)]))
            ELSE UnpickleDict(Tail(b), cur, d)

\* pickle.load(open(path, "rb")) of a dictionary file; the caller checks Loadable
LoadDict(f) == UnpickleDict(FirstStream(f.bytes), 0, EmptyDict)

\* pd.read_pickle(path) of a table file
LoadTable(f) ==
    LET rows == SelectSeq(FirstStream(f.bytes), LAMBDA t : t.op = "ROW")
    IN [i \in 1..Len(rows) |-> rows[i].v[1]]

\* variant: the file is opened with "ab", what it held stays in front
OpenWB_Append(f) == File(f.bytes)

\* open(path, "wb"): the file exists and is empty from this point on
OpenWB(f) == File(<<>>)

\* file.write(data) on the handle opened above
Write(f, data) == File(f.bytes \o data)

\* ------------------------------------------------------------ cases, paths
\* every --run_<flag> block of a run_*_cases driver, in source order
ModelFlags(d) ==
    IF d = "run_heat_cases" THEN <<"aifs", "hres", "fourv2", "gc", "pangu">>
    ELSE <<"hres", "cira_fourv2", "cira_gc", "cira_pangu", "bb_aifs",
           "bb_graphcast", "bb_pangu">>

\* the literal handed to to_pickle in the block of a flag: a stem, the event
\* type of the driver and "_results.pkl"
to_pickle_path(d, f) ==
    LET event == CASE d = "run_tc_cases" -> "tc"
                   [] d = "run_ar_cases" -> "ar"
                   [] OTHER -> "heat"
        stem == IF d = "run_heat_cases" /\ f = "pangu" THEN "pang" ELSE f
    IN "saved_data/" \o stem \o "_" \o event \o "_results.pkl"

\* variant: the cira_fourv2 block of run_tc_cases was pasted from the hres
\* block with its path left as it was
ResultPath_Shared(d, m) ==
    CASE d = "compute_tc_tracks" -> "saved_data/tc_tracks.pkl"
      [] d = "run_tc_cases" /\ m = "hres" -> "saved_data/hres_tc_results.pkl"
      [] d = "run_tc_cases" /\ m = "cira_fourv2" -> "saved_data/hres_tc_results.pkl"
      [] d = "run_ar_cases" /\ m = "hres" -> "saved_data/hres_ar_results.pkl"
      [] d = "run_ar_cases" /\ m = "cira_fourv2" -> "saved_data/cira_fourv2_ar_results.pkl"
      [] d = "run_heat_cases" /\ m = "aifs" -> "saved_data/aifs_heat_results.pkl"
      [] d = "run_heat_cases" /\ m = "hres" -> "saved_data/hres_heat_results.pkl"

\* the checkpoint file a block of a driver writes (literal paths of the source)
ResultPath(d, m) ==
    CASE d = "compute_tc_tracks" -> "saved_data/tc_tracks.pkl"
      [] d = "run_tc_cases" /\ m = "hres" -> "saved_data/hres_tc_results.pkl"
      [] d = "run_tc_cases" /\ m = "cira_fourv2" -> "saved_data/cira_fourv2_tc_results.pkl"
      [] d = "run_ar_cases" /\ m = "hres" -> "saved_data/hres_ar_results.pkl"
      [] d = "run_ar_cases" /\ m = "cira_fourv2" -> "saved_data/cira_fourv2_ar_results.pkl"
      [] d = "run_heat_cases" /\ m = "aifs" -> "saved_data/aifs_heat_results.pkl"
      [] d = "run_heat_cases" /\ m = "hres" -> "saved_data/hres_heat_results.pkl"

Paths(d) == {ResultPath(d, Blocks(d)[i]) : i \in 1..Len(Blocks(d))}

Sources == {"WB2_HRES", "BB_HRES", "CIRA_FOURv2", "BB_AIFS"}

Case(id, s, e) == [case_id_number |-> id, start_date |-> s, end_date |-> e]

\* The case catalog (events.yaml), one case of each kind the cutoff tells
\* apart: over before it, ending on it, straddling it, starting after it.
Catalog ==
    <<Case(1, 20221231, 20221231), Case(2, 20221231, 20230101),
      Case(3, 20221231, 20230102), Case(4, 20230102, 20230102)>>

RECURSIVE SubSeqs(_)
\* the order-preserving sub-sequences of a sequence
SubSeqs(s) ==
    IF s = <<>> THEN {<<>>}
    ELSE LET rest == SubSeqs(Tail(s))
         IN rest \cup {<<Head(s)>> \o r : r \in rest}

\* The collections select_cases("event_type", ...) can leave, up to MaxCases
\* cases.  compute_tc_tracks and run_ar_cases never read the dates, so there
\* the first n catalog cases stand for every collection of n cases.
Collections(d) ==
    IF d \in {"compute_tc_tracks", "run_ar_cases"}
    THEN {SubSeq(Catalog, 1, n) : n \in 0..(IF MaxCases < 4 THEN MaxCases ELSE 4)}
    ELSE {c \in SubSeqs(Catalog) : Len(c) <= MaxCases}

\* variant: the early side takes the cases that end on the cutoff day
early_cases_Inclusive(coll) == SelectSeq(coll, LAMBDA i : i.end_date <= Cutoff)

\* early_cases / later_cases of the HRES split
early_cases(coll) == SelectSeq(coll, LAMBDA i : i.end_date < Cutoff)

later_cases(coll) == SelectSeq(coll, LAMBDA i : i.start_date > Cutoff)

\* ------------------------------------------------------------ process_case
\* a task slot whose worker has not returned
Pending == <<0, "", "None", <<>> >>

\* evaluate.run_pipeline(case, ibtracs_target)
TargetData(case) == "IBTrACS"

\* (case_id, model_name, target_data, forecast_data); the forecast pipeline
\* yields a dataset carrying the source's data, or a zero-length one
process_case(case, forecast, model_name, found) ==
    <<case.case_id_number, model_name, TargetData(case),
      IF found THEN <<forecast>> ELSE <<>> >>

\* variant: every task evaluates the last case of the collection (the loop
\* variable captured late)
CaseById_Last(coll, id) == coll[Len(coll)]

\* the case object a task was created for
CaseById(coll, id) == CHOOSE c \in Range(coll) : c.case_id_number = id

\* empty_cases = [r for r in results if len(r[3]) == 0]
empty_cases(rs) == SelectSeq(rs, LAMBDA r : Len(r[4]) = 0)

\* empty_case_ids = [r[0] for r in empty_cases]
empty_case_ids(rs) == [i \in 1..Len(empty_cases(rs)) |-> empty_cases(rs)[i][1]]

\* variant: the primary list is kept whole, the fallback list is appended
merge_KeepAll(rs, bb) == rs \o bb

\* results = [r for r in results if len(r[3]) > 0] + bb_results
merge(rs, bb) == SelectSeq(rs, LAMBDA r : Len(r[4]) > 0) \o bb

\* variant: the entries are created with one shared forecast_data
\* dictionary, so a write for one case shows in the entry of every case
UpdateEntry_Shared(d, r, model_name) ==
    LET case_id == r[1]
        d1 == IF case_id \notin DOMAIN d
              THEN DictSet(d, case_id, [target_data |-> "None",
                                        forecast_data |-> EmptyDict])
              ELSE d
        t  == IF d1[case_id].target_data = "None" THEN r[3]
              ELSE d1[case_id].target_data
    IN [x \in DOMAIN d1 |->
           [target_data |-> IF x = case_id THEN t ELSE d1[x].target_data,
            forecast_data |-> DictSet(d1[x].forecast_data, model_name, r[4])]]

\* variant: target_data is assigned without the `is None` test
UpdateEntry_Overwrite(d, r, model_name) ==
    LET case_id == r[1]
        d1 == IF case_id \notin DOMAIN d
              THEN DictSet(d, case_id, [target_data |-> "None",
                                        forecast_data |-> EmptyDict])
              ELSE d
    IN DictSet(d1, case_id,
               [target_data |-> r[3],
                forecast_data |-> DictSet(d1[case_id].forecast_data,
                                          model_name, r[4])])

\* variant: the entry of the case is built anew for the model at hand
UpdateEntry_Replace(d, r, model_name) ==
    DictSet(d, r[1], [target_data |-> r[3],
                      forecast_data |-> DictSet(EmptyDict, model_name, r[4])])

\* variant: the data is stored under the model name the tuple carries, not
\* under the model_name argument
UpdateEntry_TupleName(d, r, model_name) ==
    LET case_id == r[1]
        d1 == IF case_id \notin DOMAIN d
              THEN DictSet(d, case_id, [target_data |-> "None",
                                        forecast_data |-> EmptyDict])
              ELSE d
        t  == IF d1[case_id].target_data = "None" THEN r[3]
              ELSE d1[case_id].target_data
    IN DictSet(d1, case_id,
               [target_data |-> t,
                forecast_data |-> DictSet(d1[case_id].forecast_data, r[2], r[4])])

\* one iteration of the loop of update_tc_dict
UpdateEntry(d, r, model_name) ==
    LET case_id == r[1]
        d1 == IF case_id \notin DOMAIN d
              THEN DictSet(d, case_id, [target_data |-> "None",
                                        forecast_data |-> EmptyDict])
              ELSE d
        t  == IF d1[case_id].target_data = "None" THEN r[3]
              ELSE d1[case_id].target_data
    IN DictSet(d1, case_id,
               [target_data |-> t,
                forecast_data |-> DictSet(d1[case_id].forecast_data,
                                          model_name, r[4])])

RECURSIVE update_tc_dict(_, _, _)
\* the in-memory part of update_tc_dict; the dump is UpdateTcDict / DumpDone
update_tc_dict(d, rs, model_name) ==
    IF rs = <<>> THEN d
    ELSE update_tc_dict(UpdateEntry(d, Head(rs), model_name), Tail(rs), model_name)

\* -------------------------------------------------------------- positions
NumBlocks == Len(Blocks(driver))

Model == Blocks(driver)[blk]

\* first selected block after block i, or NumBlocks + 1
NextSel(i, f) ==
    LET later == {j \in (i+1)..NumBlocks : Blocks(driver)[j] \in f}
    IN IF later = {} THEN NumBlocks + 1
       ELSE CHOOSE j \in later : \A k \in later : j <= k

Alive == pc \notin {"idle", "done", "aborted", "dead"}

NoEvals == [k \in Sources \X CaseIds(Catalog) |-> 0]

CountEval(e, src, ids) ==
    [k \in DOMAIN e |-> IF k[1] = src /\ k[2] \in ids THEN e[k] + 1 ELSE e[k]]

NoOpens == [s \in Sources |-> 0]

\* get_*_forecast() is called for each source of S that the None-check finds
\* not yet constructed
Constructed(o, have, S) ==
    [s \in DOMAIN o |-> IF s \in S /\ s \notin have THEN o[s] + 1 ELSE o[s]]

\* position after the last statement of a block
AfterBlock(i, f) ==
    IF NextSel(i, f) <= NumBlocks THEN "construct"
    ELSE IF driver = "compute_tc_tracks" THEN "final" ELSE "done"

\* ------------------------------------------------------------------- Init
\* no process yet; the saved_data directory holds no checkpoint
Init ==
    /\ driver \in Drivers
    /\ pc = "idle"
    /\ restarted = FALSE
    /\ flags = {}
    /\ ewb_cases \in Collections(driver)
    /\ blk = 0
    /\ cache = {}
    /\ phase = "primary"
    /\ tasks = <<>>
    /\ slots = <<>>
    /\ results = <<>>
    /\ bb_results = <<>>
    /\ hres_primary = <<>>
    /\ error = "none"
    /\ survived = {}
    /\ evals = NoEvals
    /\ tc_dict = EmptyDict
    /\ tables = <<>>
    /\ disk = [p \in Paths(driver) |-> NoFile]
    /\ opens = NoOpens
    /\ inp = <<>>
    /\ out = <<>>

\* the file loads and holds an entry of model m for every case
HoldsModel(f, m, ids) ==
    /\ Loadable(f)
    /\ \A c \in ids : /\ c \in DOMAIN LoadDict(f)
                      /\ m \in DOMAIN LoadDict(f)[c].forecast_data

\* the models of the driver whose results the saved_data directory holds
Checkpointed ==
    {m \in Range(Blocks(driver)) :
        IF driver = "compute_tc_tracks"
        THEN HoldsModel(disk[ResultPath(driver, m)], m, CaseIds(ewb_cases))
        ELSE Loadable(disk[ResultPath(driver, m)])}

\* ------------------------------------------------------ process start/end
\* A fresh interpreter: argparse sets the flags, the cases are loaded, tc_dict
\* is {} and every forecast cache variable is None.  run_heat_cases builds
\* its forecast objects while the module is imported, before __main__.
Launch(f) ==
    /\ flags' = f
    /\ blk' = IF driver = "run_heat_cases" THEN 0 ELSE NextSel(0, f)
    /\ pc' = IF driver = "run_heat_cases" THEN "import"
             ELSE AfterBlock(0, f)
    /\ bb_results' = <<>>
    /\ error' = "none"
    /\ cache' = {}
    /\ phase' = "primary"
    /\ tasks' = <<>>
    /\ slots' = <<>>
    /\ results' = <<>>
    /\ hres_primary' = <<>>
    /\ evals' = NoEvals
    /\ tc_dict' = EmptyDict
    /\ tables' = <<>>
    /\ opens' = NoOpens
    /\ UNCHANGED <<driver, ewb_cases, disk, inp, out>>

\* first invocation of the driver with some set of --run_<model> flags
Invoke ==
    /\ pc = "idle"
    /\ \E f \in SUBSET Range(Blocks(driver)) : Launch(f)
    /\ UNCHANGED <<restarted, survived>>

\* the driver is started again after it exited, aborted or was killed
Restart ==
    /\ pc \in {"done", "aborted", "dead"}
    /\ restarted' = TRUE
    /\ survived' = IF pc = "dead" THEN Checkpointed ELSE {}
    /\ \E f \in SUBSET Range(Blocks(driver)) : Launch(f)

\* The process ends without reaching the end of the script: its memory is
\* gone, the files stay as they are.  how is "aborted" for an uncaught
\* exception (traceback, non-zero exit) and "dead" for a kill; why names
\* what raised.
Die(how, why) ==
    /\ pc' = how
    /\ error' = why
    /\ bb_results' = <<>>
    /\ cache' = {}
    /\ phase' = "primary"
    /\ tasks' = <<>>
    /\ slots' = <<>>
    /\ results' = <<>>
    /\ hres_primary' = <<>>
    /\ tc_dict' = EmptyDict
    /\ tables' = <<>>
    /\ evals' = NoEvals
    /\ opens' = NoOpens
    /\ UNCHANGED <<driver, restarted, flags, ewb_cases, blk, survived, disk,
                   inp, out>>

\* the process is killed (signal, power loss, node failure) at any point
Crash ==
    /\ Alive
    /\ Die("dead", "none")

\* ------------------------------------------------------ compute_tc_tracks
\* the source the current run of the block reads
CurrentSource == IF phase = "fallback" THEN "BB_HRES" ELSE PrimarySource(Model)

\* variant: the fallback run is given the whole collection again
RunCases_All == ewb_cases

\* the collection handed to run_tc_tracker
RunCases ==
    IF phase = "fallback" THEN select_cases(ewb_cases, empty_case_ids(results))
    ELSE ewb_cases

\* `if <x>_forecast is None: <x>_forecast = get_...()`, then run_tc_tracker
\* starts: one process_case task per case of the collection
ConstructForecast ==
    /\ driver = "compute_tc_tracks"
    /\ pc = "construct"
    /\ cache' = cache \cup {CurrentSource}
    /\ opens' = Constructed(opens, cache, {CurrentSource})
    /\ tasks' = [i \in 1..Len(RunCases) |-> RunCases[i].case_id_number]
    /\ slots' = [i \in 1..Len(RunCases) |-> Pending]
    /\ pc' = "running"
    /\ UNCHANGED <<driver, restarted, flags, ewb_cases, blk, phase, results,
                   hres_primary, evals, tc_dict, tables, disk>>
    /\ UNCHANGED <<bb_results, error, survived>>
    /\ UNCHANGED <<inp, out>>

\* the constructor's network open raises; nothing in __main__ catches it
ConstructFails ==
    /\ driver = "compute_tc_tracks"
    /\ pc = "construct"
    /\ CurrentSource \notin cache
    /\ OpensOnConstruct(CurrentSource)
    /\ Die("aborted", "open")

\* The sources for which a zero-length forecast result is drawn.  The drivers
\* read len() of a result only for the two HRES archives; for the other
\* sources an empty dataset and a filled one take the same path through the
\* code, so one outcome stands for both.
MayBeEmpty(src) == src \in {"WB2_HRES", "BB_HRES"}

\* the class of the forecast object built on a source (tc_forecast_setup.py)
ForecastClass(src) ==
    CASE src = "WB2_HRES" -> "ZarrForecast"
      [] src = "BB_HRES" -> "ArraylakeForecast"
      [] src = "CIRA_FOURv2" -> "KerchunkForecast"
      [] OTHER -> "InMemoryForecast"

\* parallel_config of __main__ with the default of --n_jobs; the one
\* dictionary is handed to run_tc_tracker by every block
parallel_config == [backend |-> "loky", n_jobs |-> 20]

\* the kind of pool a joblib backend dispatches on
PoolKind(backend) == IF backend = "threading" THEN "threads" ELSE "processes"

\* a worker runs process_case for task i and returns its tuple
WorkerReturn ==
    /\ driver = "compute_tc_tracks"
    /\ pc = "running"
    /\ \E i \in DOMAIN slots, found \in BOOLEAN :
         /\ slots[i] = Pending
         /\ found \/ MayBeEmpty(CurrentSource)
         /\ slots' = [slots EXCEPT ![i] =
                process_case(CaseById(ewb_cases, tasks[i]), CurrentSource,
                             Model, found)]
         /\ evals' = CountEval(evals, CurrentSource, {tasks[i]})
    /\ UNCHANGED <<driver, pc, restarted, flags, ewb_cases, blk, cache, phase,
                   tasks, results, hres_primary, tc_dict, tables, disk>>
    /\ UNCHANGED <<bb_results, error, survived>>
    /\ UNCHANGED <<opens, inp, out>>

\* evaluate.run_pipeline raises inside process_case: joblib re-raises it in
\* run_tc_tracker, which has no handler, and neither has __main__
WorkerRaise ==
    /\ driver = "compute_tc_tracks"
    /\ pc = "running"
    /\ \E i \in DOMAIN slots : slots[i] = Pending
    /\ Die("aborted", "case")

\* variant: the list is taken as soon as one worker is back (the run is not
\* waited for)
RunReturns_Early ==
    /\ driver = "compute_tc_tracks"
    /\ pc = "running"
    /\ \E i \in DOMAIN slots : slots[i] # Pending
    /\ IF phase = "primary"
       THEN /\ results' = slots
            /\ hres_primary' = IF Model = "HRES" THEN slots ELSE hres_primary
            /\ IF Model = "HRES" /\ empty_cases(slots) # <<>>
               THEN phase' = "fallback" /\ pc' = "construct"
               ELSE phase' = phase /\ pc' = "update"
            /\ UNCHANGED bb_results
       ELSE /\ results' = merge(results, slots)
            /\ bb_results' = slots
            /\ pc' = "update"
            /\ UNCHANGED <<hres_primary, phase>>
    /\ tasks' = <<>>
    /\ slots' = <<>>
    /\ UNCHANGED <<driver, restarted, flags, ewb_cases, blk, cache, evals,
                   tc_dict, tables, disk>>
    /\ UNCHANGED <<error, survived, opens, inp, out>>

\* variant: the fallback run is started again while its list still has an
\* empty result
RunReturns_Retry ==
    /\ driver = "compute_tc_tracks"
    /\ pc = "running"
    /\ \A i \in DOMAIN slots : slots[i] # Pending
    /\ IF phase = "primary"
       THEN /\ results' = slots
            /\ hres_primary' = IF Model = "HRES" THEN slots ELSE hres_primary
            /\ IF Model = "HRES" /\ empty_cases(slots) # <<>>
               THEN phase' = "fallback" /\ pc' = "construct"
               ELSE phase' = phase /\ pc' = "update"
            /\ UNCHANGED bb_results
       ELSE /\ results' = merge(results, slots)
            /\ bb_results' = slots
            /\ pc' = IF empty_cases(slots) # <<>> THEN "construct" ELSE "update"
            /\ UNCHANGED <<hres_primary, phase>>
    /\ tasks' = <<>>
    /\ slots' = <<>>
    /\ UNCHANGED <<driver, restarted, flags, ewb_cases, blk, cache, evals,
                   tc_dict, tables, disk>>
    /\ UNCHANGED <<error, survived, opens, inp, out>>

\* run_tc_tracker returns the list in task order.  In the HRES block the
\* primary list is scanned for empty results (fallback follows if there are
\* any) and the fallback list is merged into it.
RunReturns ==
    /\ driver = "compute_tc_tracks"
    /\ pc = "running"
    /\ \A i \in DOMAIN slots : slots[i] # Pending
    /\ IF phase = "primary"
       THEN /\ results' = slots
            /\ hres_primary' = IF Model = "HRES" THEN slots ELSE hres_primary
            /\ IF Model = "HRES" /\ empty_cases(slots) # <<>>
               THEN phase' = "fallback" /\ pc' = "construct"
               ELSE phase' = phase /\ pc' = "update"
            /\ UNCHANGED bb_results
       ELSE /\ results' = merge(results, slots)
            /\ bb_results' = slots
            /\ pc' = "update"
            /\ UNCHANGED <<hres_primary, phase>>
    /\ tasks' = <<>>
    /\ slots' = <<>>
    /\ UNCHANGED <<driver, restarted, flags, ewb_cases, blk, cache, evals,
                   tc_dict, tables, disk>>
    /\ UNCHANGED <<error, survived, opens, inp, out>>

\* variant: update_tc_dict only updates the dictionary and leaves the saving
\* to the pickle.dump at the end of the script
UpdateTcDict_NoDump ==
    /\ driver = "compute_tc_tracks"
    /\ pc = "update"
    /\ tc_dict' = update_tc_dict(tc_dict, results, Model)
    /\ blk' = NextSel(blk, flags)
    /\ pc' = AfterBlock(blk, flags)
    /\ phase' = "primary"
    /\ UNCHANGED <<driver, restarted, flags, ewb_cases, cache, tasks, slots,
                   results, hres_primary, evals, tables, disk>>
    /\ UNCHANGED <<bb_results, error, survived>>
    /\ UNCHANGED <<opens, inp, out>>

\* update_tc_dict up to and including open(path, "wb")
UpdateTcDict ==
    /\ driver = "compute_tc_tracks"
    /\ pc = "update"
    /\ tc_dict' = update_tc_dict(tc_dict, results, Model)
    /\ disk' = [disk EXCEPT !["saved_data/tc_tracks.pkl"] = OpenWB(@)]
    /\ pc' = "dump"
    /\ UNCHANGED <<driver, restarted, flags, ewb_cases, blk, cache, phase, tasks,
                   slots, results, hres_primary, evals, tables>>
    /\ UNCHANGED <<bb_results, error, survived>>
    /\ UNCHANGED <<opens, inp, out>>

\* pickle.dump writes the stream, the file object is released, update_tc_dict
\* returns and the next selected block begins
DumpDone ==
    /\ driver = "compute_tc_tracks"
    /\ pc = "dump"
    /\ disk' = [disk EXCEPT !["saved_data/tc_tracks.pkl"] =
                   Write(@, DumpsDict(tc_dict))]
    /\ blk' = NextSel(blk, flags)
    /\ pc' = AfterBlock(blk, flags)
    /\ phase' = "primary"
    /\ UNCHANGED <<driver, restarted, flags, ewb_cases, cache, tasks, slots,
                   results, hres_primary, evals, tc_dict, tables>>
    /\ UNCHANGED <<bb_results, error, survived>>
    /\ UNCHANGED <<opens, inp, out>>

\* the closing pickle.dump of __main__: open(path, "wb")
FinalOpen ==
    /\ driver = "compute_tc_tracks"
    /\ pc = "final"
    /\ disk' = [disk EXCEPT !["saved_data/tc_tracks.pkl"] = OpenWB(@)]
    /\ pc' = "final_dump"
    /\ UNCHANGED <<driver, restarted, flags, ewb_cases, blk, cache, phase, tasks,
                   slots, results, hres_primary, evals, tc_dict, tables>>
    /\ UNCHANGED <<bb_results, error, survived>>
    /\ UNCHANGED <<opens, inp, out>>

\* the closing pickle.dump of __main__: the stream is written, the script ends
FinalDump ==
    /\ driver = "compute_tc_tracks"
    /\ pc = "final_dump"
    /\ disk' = [disk EXCEPT !["saved_data/tc_tracks.pkl"] =
                   Write(@, DumpsDict(tc_dict))]
    /\ pc' = "done"
    /\ UNCHANGED <<driver, restarted, flags, ewb_cases, blk, cache, phase, tasks,
                   slots, results, hres_primary, evals, tc_dict, tables>>
    /\ UNCHANGED <<bb_results, error, survived>>
    /\ UNCHANGED <<opens, inp, out>>

\* -------------------------------------------------------- run_*_cases.py
\* name= of the forecast object built on a source; both HRES archives are
\* constructed with name="ECMWF HRES"
ForecastName(src) ==
    CASE src \in {"WB2_HRES", "BB_HRES"} -> "ECMWF HRES"
      [] src = "CIRA_FOURv2" -> "CIRA FOURv2 GFS"
      [] OTHER -> "BB AIFS"

\* the target of the driver's evaluation objects
TargetName(d) ==
    CASE d = "run_tc_cases" -> "IBTrACS"
      [] d = "run_ar_cases" -> "ERA5"
      [] OTHER -> "GHCN"

\* one record of a result table; value stands for the numbers computed from
\* the archive that supplied the forecast
Row(id, src) ==
    [case_id |-> id, forecast_source |-> ForecastName(src),
     target_source |-> TargetName(driver), metric |-> "metric",
     lead_time |-> 0, value |-> src]

\* the key of a record
Key(r) == <<r.case_id, r.forecast_source, r.target_source, r.metric, r.lead_time>>

\* the sources a block's evaluation objects are built on
BlockSources(m) ==
    IF m = "hres" THEN {"WB2_HRES", "BB_HRES"} ELSE {PrimarySource(m)}

\* the case collection of the block's first and second library run
SubRunCases(d, m, ph, coll) ==
    IF m # "hres" THEN coll
    ELSE IF d = "run_tc_cases"
         THEN (IF ph = "primary" THEN early_cases(coll) ELSE later_cases(coll))
    ELSE IF d = "run_heat_cases"
         THEN (IF ph = "primary" THEN coll ELSE later_cases(coll))
    ELSE coll

\* ExtremeWeatherBench(cases, objects).run(...): the rows the library computed
\* for the cases it found data for, in collection order
LibraryTable(coll, S, src) ==
    LET hit == SelectSeq(coll, LAMBDA c : c.case_id_number \in S)
    IN [i \in 1..Len(hit) |-> Row(hit[i].case_id_number, src)]

\* pd.concat([a, b])
concat(ts) == IF Len(ts) = 2 THEN ts[1] \o ts[2] ELSE ts[1]

\* run_heat_cases at import: the module-level forecast objects are built,
\* ArraylakeForecast prefetches and open_icechunk_dataset opens the archive
ImportModule ==
    /\ pc = "import"
    /\ cache' = Sources
    /\ opens' = Constructed(opens, cache, Sources)
    /\ blk' = NextSel(0, flags)
    /\ pc' = AfterBlock(0, flags)
    /\ UNCHANGED <<driver, restarted, flags, ewb_cases, phase, tasks, slots,
                   results, hres_primary, evals, tc_dict, tables, disk>>
    /\ UNCHANGED <<bb_results, error, survived>>
    /\ UNCHANGED <<inp, out>>

\* one of the module-level opens raises: the import fails before __main__
ImportFails ==
    /\ pc = "import"
    /\ Die("aborted", "open")

\* the head of a model block: the forecast objects (run_tc_cases,
\* run_ar_cases) and the ExtremeWeatherBench objects are built
BuildEvaluation ==
    /\ driver # "compute_tc_tracks"
    /\ pc = "construct"
    /\ cache' = cache \cup BlockSources(Model)
    /\ opens' = Constructed(opens, cache, BlockSources(Model))
    /\ tables' = <<>>
    /\ phase' = "primary"
    /\ pc' = "lib_run"
    /\ UNCHANGED <<driver, restarted, flags, ewb_cases, blk, tasks, slots,
                   results, hres_primary, evals, tc_dict, disk>>
    /\ UNCHANGED <<bb_results, error, survived>>
    /\ UNCHANGED <<inp, out>>

\* a forecast constructor of the block raises on its network open
BuildFails ==
    /\ driver \in {"run_tc_cases", "run_ar_cases"}
    /\ pc = "construct"
    /\ \E src \in BlockSources(Model) : OpensOnConstruct(src)
    /\ Die("aborted", "open")

\* ewb.run(parallel_config) returns its table; the HRES block then runs the
\* second archive, every other block goes on to to_pickle
LibRun ==
    /\ pc = "lib_run"
    /\ LET coll == SubRunCases(driver, Model, phase, ewb_cases)
           src  == CurrentSource
       IN /\ \E S \in SUBSET CaseIds(coll) :
                tables' = Append(tables, LibraryTable(coll, S, src))
          /\ evals' = CountEval(evals, src, CaseIds(coll))
    /\ IF Model = "hres" /\ phase = "primary"
       THEN phase' = "fallback" /\ pc' = pc
       ELSE phase' = phase /\ pc' = "to_pickle"
    /\ UNCHANGED <<driver, restarted, flags, ewb_cases, blk, cache, tasks, slots,
                   results, hres_primary, tc_dict, disk>>
    /\ UNCHANGED <<bb_results, error, survived>>
    /\ UNCHANGED <<opens, inp, out>>

\* ewb.run raises; the block has no handler
LibRunRaises ==
    /\ pc = "lib_run"
    /\ Die("aborted", "library")

\* pd.concat of the sub-run tables (HRES) and to_pickle up to open(path, "wb")
ToPickleOpen ==
    /\ pc = "to_pickle"
    /\ results' = concat(tables)
    /\ disk' = [disk EXCEPT ![ResultPath(driver, Model)] = OpenWB(@)]
    /\ pc' = "to_pickle_write"
    /\ UNCHANGED <<driver, restarted, flags, ewb_cases, blk, cache, phase, tasks,
                   slots, hres_primary, evals, tc_dict, tables>>
    /\ UNCHANGED <<bb_results, error, survived>>
    /\ UNCHANGED <<opens, inp, out>>

\* to_pickle writes the stream and closes the file; the next block begins
ToPickleWrite ==
    /\ pc = "to_pickle_write"
    /\ disk' = [disk EXCEPT ![ResultPath(driver, Model)] =
                   Write(@, DumpsTable(results))]
    /\ blk' = NextSel(blk, flags)
    /\ pc' = AfterBlock(blk, flags)
    /\ phase' = "primary"
    /\ UNCHANGED <<driver, restarted, flags, ewb_cases, cache, tasks, slots,
                   results, hres_primary, evals, tc_dict, tables>>
    /\ UNCHANGED <<bb_results, error, survived>>
    /\ UNCHANGED <<opens, inp, out>>

Next ==
    \/ Invoke
    \/ Restart
    \/ Crash
    \/ ConstructForecast
    \/ ConstructFails
    \/ WorkerReturn
    \/ WorkerRaise
    \/ RunReturns
    \/ UpdateTcDict
    \/ DumpDone
    \/ FinalOpen
    \/ FinalDump
    \/ ImportModule
    \/ ImportFails
    \/ BuildEvaluation
    \/ BuildFails
    \/ LibRun
    \/ LibRunRaises
    \/ ToPickleOpen
    \/ ToPickleWrite

Spec == Init /\ [][Next]_vars

\* The statements of compute_tc_tracks that end without raising.  The
\* interpreter goes on to its next statement, joblib hands every task to a
\* worker, and a process_case call that returns puts its tuple in the list.
TracksProgress ==
    \/ ConstructForecast
    \/ WorkerReturn
    \/ RunReturns
    \/ UpdateTcDict
    \/ DumpDone
    \/ FinalOpen
    \/ FinalDump

\* the drivers, with compute_tc_tracks never left waiting at a statement it
\* can execute
FairSpec == Spec /\ WF_vars(TracksProgress)

\* ================================================== compute_ar_plot_data
\* src/plots/compute_ar_plot_data.py: one loop over the cases; inside it one
\* block per --run_<model> flag, each with a None-check on its cache variable
\* in front of get_ivt.  Three blocks stand for the shapes the loop has: HRES
\* (two sources, the second read when the first gives nothing), CIRA FOURv2,
\* the CIRA and the Brightband Graphcast (which write one graphics
\* dictionary; the two Pangu blocks repeat the pair) and Brightband AIFS.
\* Here tasks holds the cases the for loop has still to visit (its head is
\* my_case), blk the block inside the iteration, cache the cache variables
\* that are bound to a forecast object, results the assignments made to the
\* graphics dictionaries, in order.
\* src/plots/compute_cbss_pph_examples.py has the same loop and the same
\* saving (its variables read _severe_ for _ar_, its files lack the _ar, its
\* FOURv2 block assigns the variable it tests and its setup class defines
\* the methods it calls); both scripts are drivers of this model.
ArBlocks == <<"hres", "cira_fourv2", "cira_gc", "bb_graphcast", "bb_aifs">>

\* per block: <<variable tested for None, source constructed, variable the
\* constructed object is assigned to>>, in statement order (lines 123-126,
\* 136-137, 172-173)
ArChecks(m) ==
    CASE m = "hres" ->
           << <<"hres_ar_forecast", "WB2_HRES", "hres_ar_forecast">>,
              <<"bb_hres_ar_forecast", "BB_HRES", "bb_hres_ar_forecast">> >>
      [] m = "cira_fourv2" ->
           << <<"cira_fourv2_ar_forecast", "CIRA_FOURv2",
                IF driver = "compute_ar_plot_data"
                THEN "cira_fourv2_ar_ifs_forecast"
                ELSE "cira_fourv2_ar_forecast">> >>
      [] m = "cira_gc" ->
           << <<"gc_ar_forecast", "CIRA_GC", "gc_ar_forecast">> >>
      [] m = "bb_graphcast" ->
           << <<"bb_graphcast_ar_forecast", "BB_GC", "bb_graphcast_ar_forecast">> >>
      [] OTHER ->
           << <<"bb_aifs_ar_forecast", "BB_AIFS", "bb_aifs_ar_forecast">> >>

\* the variable a block passes to get_ivt (lines 127, 139, 174)
ArReads(m) ==
    CASE m = "hres" -> "hres_ar_forecast"
      [] m = "cira_fourv2" -> "cira_fourv2_ar_forecast"
      [] m = "cira_gc" -> "gc_ar_forecast"
      [] m = "bb_graphcast" -> "bb_graphcast_ar_forecast"
      [] OTHER -> "bb_aifs_ar_forecast"

\* the source of the object a cache variable holds, "None" while unbound
ArValue(var, bound) ==
    IF var \notin bound THEN "None"
    ELSE CASE var = "hres_ar_forecast" -> "WB2_HRES"
           [] var = "bb_hres_ar_forecast" -> "BB_HRES"
           [] var \in {"cira_fourv2_ar_forecast",
                       "cira_fourv2_ar_ifs_forecast"} -> "CIRA_FOURv2"
           [] var = "gc_ar_forecast" -> "CIRA_GC"
           [] var = "bb_graphcast_ar_forecast" -> "BB_GC"
           [] OTHER -> "BB_AIFS"

\* the graphics file of a block (lines 185-212; compute_cbss_pph_examples.py
\* 176-203)
ArPath(m) ==
    LET stem == CASE m = "hres" -> "hres"
                  [] m = "cira_fourv2" -> "fourv2_cira"
                  [] m = "cira_gc" -> "gc_cira"
                  [] m = "bb_graphcast" -> "gc_bb"
                  [] OTHER -> "aifs_bb"
    IN "saved_data/" \o stem
          \o (IF driver = "compute_ar_plot_data" THEN "_ar" ELSE "")
          \o "_graphics.pkl"

\* the dictionary a block assigns its result to and the saving dumps for
\* its flag (lines 148, 162 and 194, 202)
ArGraphics(m) ==
    CASE m = "hres" -> "hres_graphics"
      [] m = "cira_fourv2" -> "fourv2_graphics"
      [] m \in {"cira_gc", "bb_graphcast"} -> "gc_graphics"
      [] OTHER -> "aifs_graphics"

\* a graphics dictionary after the assignments rs: per case the value that
\* was assigned last
ArDict(rs, g) ==
    SelectSeq(rs, LAMBDA r :
        /\ ArGraphics(r[2]) = g
        /\ ~\E i, j \in DOMAIN rs :
              /\ rs[i] = r /\ i < j
              /\ rs[j][1] = r[1] /\ ArGraphics(rs[j][2]) = g)

ArNoEvals ==
    [k \in (Sources \cup {"None", "CIRA_GC", "BB_GC"}) \X CaseIds(Catalog) |-> 0]

InitArPlot ==
    /\ driver \in {"compute_ar_plot_data", "compute_cbss_pph_examples"}
    /\ pc = "idle"
    /\ restarted = FALSE
    /\ flags \in SUBSET Range(ArBlocks)
    /\ ewb_cases \in Collections("run_ar_cases")
    /\ blk = 0
    /\ cache = {}
    /\ phase = "primary"
    /\ tasks = <<>>
    /\ slots = <<>>
    /\ results = <<>>
    /\ bb_results = <<>>
    /\ hres_primary = <<>>
    /\ error = "none"
    /\ survived = {}
    /\ evals = ArNoEvals
    /\ tc_dict = EmptyDict
    /\ tables = <<>>
    /\ disk = [p \in {ArPath(ArBlocks[i]) : i \in DOMAIN ArBlocks} |-> NoFile]
    /\ opens = NoOpens
    /\ inp = <<>>
    /\ out = <<>>

\* the variables no step of this driver changes
ArFixed == <<driver, restarted, flags, ewb_cases, phase, slots, bb_results,
             hres_primary, survived, tc_dict, tables, inp, out>>

\* lines 104-115: the cache variables are None and the loop starts
ArStart ==
    /\ pc = "idle"
    /\ tasks' = [i \in 1..Len(ewb_cases) |-> ewb_cases[i].case_id_number]
    /\ blk' = 1
    /\ pc' = IF ewb_cases = <<>> THEN "save" ELSE "block"
    /\ UNCHANGED <<cache, results, error, evals, disk, opens>>
    /\ UNCHANGED ArFixed

\* control leaves block blk: the next block, the next case, or the saving
ArLeaveBlock ==
    /\ IF blk < Len(ArBlocks)
       THEN blk' = blk + 1 /\ tasks' = tasks /\ pc' = "block"
       ELSE /\ blk' = 1
            /\ tasks' = Tail(tasks)
            /\ pc' = IF Tail(tasks) = <<>> THEN "save" ELSE "block"

\* `if args.run_<model>:` is false
ArSkip ==
    /\ pc = "block"
    /\ ArBlocks[blk] \notin flags
    /\ ArLeaveBlock
    /\ UNCHANGED <<cache, results, error, evals, disk, opens>>
    /\ UNCHANGED ArFixed

\* the None-checks of the block: each unbound tested variable has its source
\* constructed and the object assigned to the variable the statement names
ArConstruct ==
    /\ pc = "block"
    /\ ArBlocks[blk] \in flags
    /\ LET cs == ArChecks(ArBlocks[blk])
           todo == {i \in DOMAIN cs : cs[i][1] \notin cache}
       IN /\ opens' = [s \in DOMAIN opens |->
                         opens[s] + Cardinality({i \in todo : cs[i][2] = s})]
          /\ cache' = cache \cup {cs[i][3] : i \in todo}
    /\ pc' = "ivt"
    /\ UNCHANGED <<blk, tasks, results, error, evals, disk>>
    /\ UNCHANGED ArFixed

\* a constructor raises: the Arraylake or Icechunk open fails, or the setup
\* class has no method of the name called (ar_forecast_setup.py defines
\* get_cira_forecast, line 137 calls get_cira_ar_forecast)
ArConstructFails ==
    /\ pc = "block"
    /\ ArBlocks[blk] \in flags
    /\ LET cs == ArChecks(ArBlocks[blk])
       IN \E i \in DOMAIN cs :
             /\ cs[i][1] \notin cache
             /\ \/ OpensOnConstruct(cs[i][2])
                \/ cs[i][2] = "BB_GC"
                \/ /\ driver = "compute_ar_plot_data"
                   /\ cs[i][2] \in {"CIRA_FOURv2", "CIRA_GC"}
    /\ pc' = "aborted"
    /\ error' = "open"
    /\ UNCHANGED <<blk, tasks, cache, results, evals, disk, opens>>
    /\ UNCHANGED ArFixed

\* ivt = get_ivt(my_case, <cache variable of the block>) returns; in the HRES
\* block a zero-length ivt leads to the second call
ArGetIvt ==
    /\ pc = "ivt"
    /\ LET m == ArBlocks[blk]
           src == ArValue(ArReads(m), cache)
       IN /\ src # "None"
          /\ evals' = CountEval(evals, src, {Head(tasks)})
          /\ \E found \in BOOLEAN :
                /\ found \/ MayBeEmpty(src)
                /\ IF m = "hres" /\ ~found
                   THEN /\ pc' = "ivt_bb"
                        /\ UNCHANGED <<blk, tasks, results>>
                   ELSE /\ results' = Append(results,
                               <<Head(tasks), m, IF found THEN <<src>> ELSE <<>> >>)
                        /\ ArLeaveBlock
    /\ UNCHANGED <<cache, error, disk, opens>>
    /\ UNCHANGED ArFixed

\* get_ivt is called with a variable that is still None: run_pipeline has no
\* forecast to open and raises
ArGetIvtNone ==
    /\ pc = "ivt"
    /\ ArValue(ArReads(ArBlocks[blk]), cache) = "None"
    /\ evals' = CountEval(evals, "None", {Head(tasks)})
    /\ pc' = "aborted"
    /\ error' = "case"
    /\ UNCHANGED <<blk, tasks, cache, results, disk, opens>>
    /\ UNCHANGED ArFixed

\* ivt = get_ivt(my_case, bb_hres_ar_forecast), lines 128-130
ArGetIvtBB ==
    /\ pc = "ivt_bb"
    /\ LET src == ArValue("bb_hres_ar_forecast", cache)
       IN /\ evals' = CountEval(evals, src, {Head(tasks)})
          /\ \E found \in BOOLEAN :
                results' = Append(results,
                    <<Head(tasks), "hres", IF found THEN <<src>> ELSE <<>> >>)
    /\ ArLeaveBlock
    /\ UNCHANGED <<cache, error, disk, opens>>
    /\ UNCHANGED ArFixed

\* evaluate.run_pipeline raises on a case; the loop has no handler
ArGetIvtRaises ==
    /\ pc \in {"ivt", "ivt_bb"}
    /\ ArValue(ArReads(ArBlocks[blk]), cache) # "None"
    /\ pc' = "aborted"
    /\ error' = "case"
    /\ UNCHANGED <<blk, tasks, cache, results, evals, disk, opens>>
    /\ UNCHANGED ArFixed

\* lines 184-214: one pickle.dump per selected flag
ArSave ==
    /\ pc = "save"
    /\ disk' = [p \in DOMAIN disk |->
                  IF \E m \in flags : ArPath(m) = p
                  THEN Write(OpenWB(disk[p]),
                             DumpsTable(ArDict(results,
                                 ArGraphics(CHOOSE m \in flags : ArPath(m) = p))))
                  ELSE disk[p]]
    /\ pc' = "done"
    /\ UNCHANGED <<blk, tasks, cache, results, error, evals, opens>>
    /\ UNCHANGED ArFixed

NextArPlot ==
    \/ ArStart
    \/ ArSkip
    \/ ArConstruct
    \/ ArConstructFails
    \/ ArGetIvt
    \/ ArGetIvtNone
    \/ ArGetIvtBB
    \/ ArGetIvtRaises
    \/ ArSave

SpecArPlot == InitArPlot /\ [][NextArPlot]_vars

\* ======================================================== function studies
\* The functions of the drivers applied on their own: the arguments are drawn
\* in the initial state (inp), each application appends what it returned to
\* out.  No driver process exists; its variables stay as below.
progvars == <<driver, restarted, flags, ewb_cases, blk, cache, phase, tasks,
              slots, results, bb_results, hres_primary, error, survived, evals,
              tc_dict, tables, disk, opens>>

Parked(d) ==
    /\ driver = d
    /\ restarted = FALSE
    /\ flags = {}
    /\ ewb_cases = <<>>
    /\ blk = 0
    /\ cache = {}
    /\ phase = "primary"
    /\ tasks = <<>>
    /\ slots = <<>>
    /\ results = <<>>
    /\ bb_results = <<>>
    /\ hres_primary = <<>>
    /\ error = "none"
    /\ survived = {}
    /\ evals = NoEvals
    /\ tc_dict = EmptyDict
    /\ tables = <<>>
    /\ disk = EmptyDict
    /\ opens = NoOpens

\* the first cases of the catalog, as many as a collection may hold
CatalogHead == SubSeq(Catalog, 1, IF MaxCases < 4 THEN MaxCases ELSE 4)

\* what run_tc_tracker can return for a collection on a source: one tuple per
\* case, each with data or zero-length
ResultLists(coll, src) ==
    {[i \in 1..Len(coll) |-> process_case(coll[i], src, "HRES", f[i])] :
        f \in [1..Len(coll) -> BOOLEAN]}

\* ---- the merge of the HRES block (compute_tc_tracks.py:190)
\* primary lists over a collection, fallback lists over any part of it
InitMerge ==
    /\ Parked("compute_tc_tracks")
    /\ pc = "merge"
    /\ inp \in (UNION {ResultLists(SubSeq(CatalogHead, 1, n), "WB2_HRES") :
                          n \in 0..Len(CatalogHead)})
               \X (UNION {ResultLists(c, "BB_HRES") : c \in SubSeqs(CatalogHead)})
    /\ out = <<>>

\* results = [r for r in results if len(r[3]) > 0] + bb_results
MergeOnce ==
    /\ pc = "merge"
    /\ out' = <<merge(inp[1], inp[2])>>
    /\ pc' = "merged"
    /\ UNCHANGED <<inp, progvars>>

\* the same statement with the merged list in the place of bb_results
MergeAgain ==
    /\ pc = "merged"
    /\ out' = Append(out, merge(inp[1], out[1]))
    /\ pc' = "remerged"
    /\ UNCHANGED <<inp, progvars>>

NextMerge ==
    \/ MergeOnce
    \/ MergeAgain

SpecMerge == InitMerge /\ [][NextMerge]_vars

\* ---- update_tc_dict on a list and on a reordering of it
\* (compute_tc_tracks.py:67-88)
\* what process_case can return for a case id: the target of the case and
\* the data of either HRES archive or a zero-length dataset
ResultTuples(id) ==
    {<<id, "HRES", t, f>> : t \in {"IBTrACS_A", "IBTrACS_B"},
                            f \in {<<>>, <<"WB2_HRES">>, <<"BB_HRES">>}}

\* result lists of up to MaxCases tuples with distinct case ids
DistinctResults ==
    UNION {{rs \in [1..n -> UNION {ResultTuples(id) : id \in 1..(MaxCases + 1)}] :
                \A i, j \in 1..n : i # j => rs[i][1] # rs[j][1]}
           : n \in 0..MaxCases}

\* the orders in which the workers' results of one run can come back
Reorderings(rs) ==
    {[i \in DOMAIN rs |-> rs[p[i]]] :
        p \in {q \in [DOMAIN rs -> DOMAIN rs] :
                  \A i, j \in DOMAIN rs : i # j => q[i] # q[j]}}

\* tc_dict before the call: empty (first model), or holding case 1 from an
\* earlier model, or holding case 1 from an earlier call for the same model
PriorDicts ==
    {EmptyDict,
     DictSet(EmptyDict, 1, [target_data |-> "IBTrACS_A",
                            forecast_data |-> DictSet(EmptyDict, "CIRA_FOURv2",
                                                      <<"CIRA_FOURv2">>)]),
     DictSet(EmptyDict, 1, [target_data |-> "IBTrACS_A",
                            forecast_data |-> DictSet(EmptyDict, "HRES",
                                                      <<"WB2_HRES">>)])}

InitUpdate ==
    /\ Parked("compute_tc_tracks")
    /\ pc = "update"
    /\ \E d \in PriorDicts, rs \in DistinctResults :
          \E ps \in Reorderings(rs) : inp = <<d, rs, ps>>
    /\ out = <<>>

\* update_tc_dict(tc_dict, results, "HRES") with the list in task order
UpdateInOrder ==
    /\ pc = "update"
    /\ out' = <<update_tc_dict(inp[1], inp[2], "HRES")>>
    /\ pc' = "updated"
    /\ UNCHANGED <<inp, progvars>>

\* the same call on the same dictionary with the list in another order
UpdateReordered ==
    /\ pc = "updated"
    /\ out' = out \o <<update_tc_dict(inp[1], inp[3], "HRES")>>
    /\ pc' = "updated_both"
    /\ UNCHANGED <<inp, progvars>>

\* the block of the next model: update_tc_dict on the dictionary the first
\* call returned, with that model's results for the same cases
UpdateNextModel ==
    /\ pc = "updated_both"
    /\ out' = out \o <<update_tc_dict(out[1], inp[3], "CIRA_FOURv2")>>
    /\ pc' = "updated_next"
    /\ UNCHANGED <<inp, progvars>>

NextUpdate ==
    \/ UpdateInOrder
    \/ UpdateReordered
    \/ UpdateNextModel

SpecUpdate == InitUpdate /\ [][NextUpdate]_vars

\* ---- the early/late split of the HRES cases (run_tc_cases.py:91-96)
\* the days around the cutoff
SplitDays == {20221230, 20221231, 20230101, 20230102, 20230103}

\* case collections of up to MaxCases cases with start_date <= end_date
DatedCollections ==
    UNION {{[i \in 1..n |-> Case(i, d[i][1], d[i][2])] :
               d \in [1..n -> {x \in SplitDays \X SplitDays : x[1] <= x[2]}]} :
           n \in 0..MaxCases}

InitPartition ==
    /\ Parked("run_tc_cases")
    /\ pc = "partition"
    /\ inp \in DatedCollections
    /\ out = <<>>

\* the two list comprehensions over ewb_cases.cases
Partition ==
    /\ pc = "partition"
    /\ out' = <<early_cases(inp), later_cases(inp)>>
    /\ pc' = "partitioned"
    /\ UNCHANGED <<inp, progvars>>

\* a second run of the driver on the same collection
PartitionAgain ==
    /\ pc = "partitioned"
    /\ out' = out \o <<early_cases(inp), later_cases(inp)>>
    /\ pc' = "partitioned_again"
    /\ UNCHANGED <<inp, progvars>>

NextPartition ==
    \/ Partition
    \/ PartitionAgain

SpecPartition == InitPartition /\ [][NextPartition]_vars

\* ---- DateInterval (src/data/util.py:16-38, src/data/aifs_util.py:12-34)
\* the dataclass: two fields, no __post_init__, no check of their order
DateInterval(s, e) == [start_date |-> s, end_date |-> e]

\* DateInterval.overlaps
overlaps(self, other) ==
    (self.start_date <= other.end_date) /\ (self.end_date >= other.start_date)

\* variant: the case filter asks for an overlap with the archive
contains_AsOverlaps(self, other) == overlaps(self, other)

\* DateInterval.contains
contains(self, other) ==
    (self.start_date <= other.start_date) /\ (self.end_date >= other.end_date)

\* datetime.date(2021, 1, 2) .. datetime.date(2024, 12, 31) of run_aifs_eval
REF_INTERVAL == DateInterval(20210102, 20241231)

\* days before, on and after the ends of the reference interval, and within
IntervalDays == {20210101, 20210102, 20230101, 20241231, 20250101}

InitInterval ==
    /\ Parked("run_aifs_eval")
    /\ pc = "compare"
    /\ inp \in {DateInterval(s, e) : s, e \in IntervalDays}
               \X {DateInterval(s, e) : s, e \in IntervalDays}
    /\ out = <<>>

\* A.contains(B), A.overlaps(B)
Compare ==
    /\ pc = "compare"
    /\ out' = <<contains(inp[1], inp[2]), overlaps(inp[1], inp[2])>>
    /\ pc' = "compared"
    /\ UNCHANGED <<inp, progvars>>

\* B.contains(A), B.overlaps(A)
CompareBack ==
    /\ pc = "compared"
    /\ out' = out \o <<contains(inp[2], inp[1]), overlaps(inp[2], inp[1])>>
    /\ pc' = "compared_back"
    /\ UNCHANGED <<inp, progvars>>

NextInterval ==
    \/ Compare
    \/ CompareBack

SpecInterval == InitInterval /\ [][NextInterval]_vars

\* ---------------------------------------------------------- run_aifs_eval
\* src/data/run_aifs_eval.py __main__: the cases of the events file are
\* filtered by event type and by the archive's interval, the archive is
\* opened once, the library evaluates the filtered collection and the table
\* goes to eval.heatwaves.csv.  Timestamps are yyyymmddhh numbers.  Here
\* ewb_cases is case_collection.cases, blk the position of the for loop,
\* tasks the ids of valid_cases, cache holds "ds" once the archive is open.

\* pd.Timestamp.date(): the day of a timestamp
date(ts) == ts \div 100

\* event_types of __main__
event_types == {"heat_wave", "freeze", "severe_convection"}

\* the event_type= of the EvaluationObjects handed to the library
EvaluationObjectTypes == {"heat_wave", "freeze", "severe_convection"}

\* event types the events file has: two of the list and one outside it
AifsEventTypes == {"heat_wave", "freeze", "tropical_cyclone"}

\* start and end of cases: the evening before the archive begins, its first
\* midnight, the evening of its last day, the midnight after
AifsStamps == {2021010118, 2021010200, 2024123118, 2025010100}

TypedCase(id, s, e, t) ==
    [case_id_number |-> id, start_date |-> s, end_date |-> e, event_type |-> t]

\* the events file: up to MaxCases cases numbered from 1, start before end
AifsCollections ==
    UNION {{c \in [1..n -> [start_date : AifsStamps, end_date : AifsStamps,
                            event_type : AifsEventTypes]] :
                \A i \in 1..n : c[i].start_date <= c[i].end_date}
           : n \in 0..MaxCases}

AifsPath == "eval.heatwaves.csv"

InitAifs ==
    /\ driver = "run_aifs_eval"
    /\ pc = "idle"
    /\ restarted = FALSE
    /\ flags = {}
    /\ \E c \in AifsCollections :
          ewb_cases = [i \in DOMAIN c |->
                          TypedCase(i, c[i].start_date, c[i].end_date,
                                    c[i].event_type)]
    /\ blk = 0
    /\ cache = {}
    /\ phase = "primary"
    /\ tasks = <<>>
    /\ slots = <<>>
    /\ results = <<>>
    /\ bb_results = <<>>
    /\ hres_primary = <<>>
    /\ error = "none"
    /\ survived = {}
    /\ evals = NoEvals
    /\ tc_dict = EmptyDict
    /\ tables = <<>>
    /\ disk = [q \in {AifsPath} |-> NoFile]
    /\ opens = NoOpens
    /\ inp = <<>>
    /\ out = <<>>

\* the variables no step of this driver changes
AifsFixed == <<driver, restarted, flags, ewb_cases, phase, slots, bb_results,
               hres_primary, survived, tc_dict, tables, inp, out>>

\* lines 131-136: the events file is loaded, valid_cases = []
AifsStart ==
    /\ pc = "idle"
    /\ blk' = 1
    /\ pc' = IF ewb_cases = <<>> THEN "open" ELSE "filter"
    /\ UNCHANGED <<cache, tasks, results, error, evals, disk, opens>>
    /\ UNCHANGED AifsFixed

\* lines 137-143: one iteration of the for loop
AifsFilter ==
    /\ pc = "filter"
    /\ LET case == ewb_cases[blk]
           case_interval == DateInterval(date(case.start_date), date(case.end_date))
       IN tasks' = IF case.event_type \in event_types
                      /\ contains(REF_INTERVAL, case_interval)
                   THEN Append(tasks, case.case_id_number)
                   ELSE tasks
    /\ blk' = blk + 1
    /\ pc' = IF blk = Len(ewb_cases) THEN "open" ELSE "filter"
    /\ UNCHANGED <<cache, results, error, evals, disk, opens>>
    /\ UNCHANGED AifsFixed

\* lines 152-166: subset_case_collection is built, open_icechunk_dataset
\* returns the dataset
AifsOpen ==
    /\ pc = "open"
    /\ cache' = {"ds"}
    /\ opens' = [opens EXCEPT !["BB_AIFS"] = @ + 1]
    /\ pc' = "run"
    /\ UNCHANGED <<blk, tasks, results, error, evals, disk>>
    /\ UNCHANGED AifsFixed

\* open_icechunk_dataset raises: the process ends with a traceback
AifsOpenFails ==
    /\ pc = "open"
    /\ error' = "open"
    /\ pc' = "aborted"
    /\ UNCHANGED <<blk, cache, tasks, results, evals, disk, opens>>
    /\ UNCHANGED AifsFixed

\* lines 226-233: ewb.run over subset_case_collection; the library evaluates
\* a case on the evaluation objects of its event type
AifsRun ==
    /\ pc = "run"
    /\ LET ids == {c \in Range(tasks) :
                      CaseById(ewb_cases, c).event_type \in EvaluationObjectTypes}
           hit == SelectSeq(tasks, LAMBDA c : c \in ids)
       IN /\ evals' = CountEval(evals, "BB_AIFS", ids)
          /\ results' = [i \in 1..Len(hit) |-> Row(hit[i], "BB_AIFS")]
    /\ pc' = "to_csv"
    /\ UNCHANGED <<blk, cache, tasks, error, disk, opens>>
    /\ UNCHANGED AifsFixed

\* the evaluation of a case raises inside ewb.run
AifsRunRaises ==
    /\ pc = "run"
    /\ tasks # <<>>
    /\ error' = "case"
    /\ pc' = "aborted"
    /\ UNCHANGED <<blk, cache, tasks, results, evals, disk, opens>>
    /\ UNCHANGED AifsFixed

\* line 236: out.to_csv("eval.heatwaves.csv")
AifsToCsv ==
    /\ pc = "to_csv"
    /\ disk' = [disk EXCEPT ![AifsPath] = Write(OpenWB(@), DumpsTable(results))]
    /\ pc' = "done"
    /\ UNCHANGED <<blk, cache, tasks, results, error, evals, opens>>
    /\ UNCHANGED AifsFixed

NextAifs ==
    \/ AifsStart
    \/ AifsFilter
    \/ AifsOpen
    \/ AifsOpenFails
    \/ AifsRun
    \/ AifsRunRaises
    \/ AifsToCsv

SpecAifs == InitAifs /\ [][NextAifs]_vars

\* ------------------------------------------------------- ewb_paper.config
\* src/ewb_paper/config.py.  A path is the sequence of its components, <<>>
\* is Path("") and a leading "~" is the user's home until expanduser.  A
\* file is absent, or present and not TOML (tomllib.load raises), or a TOML
\* document with or without paths.basepath.  The environment variable is
\* unset or set to a string, the empty string included.
Home == <<"/", "home", "user">>

\* Path.expanduser
expanduser(path) ==
    IF path # <<>> /\ path[1] = "~" THEN Home \o Tail(path) ELSE path

Absent == [exists |-> FALSE, toml |-> FALSE, paths |-> EmptyDict]

NotToml == [exists |-> TRUE, toml |-> FALSE, paths |-> EmptyDict]

Toml(paths) == [exists |-> TRUE, toml |-> TRUE, paths |-> paths]

\* what ./config.toml, ~/.config/ewb-paper/config.toml and
\* os.getenv("EWB_PAPER_BASEPATH") can be
CwdFiles == {Absent, NotToml, Toml(EmptyDict),
             Toml([basepath |-> <<"/", "srv", "cwd">>])}

HomeFiles == {Absent, Toml(EmptyDict), Toml([basepath |-> <<"~", "home_cfg">>])}

Getenv == {[set |-> FALSE, value |-> <<>>], [set |-> TRUE, value |-> <<>>],
           [set |-> TRUE, value |-> <<"/", "srv", "env">>],
           [set |-> TRUE, value |-> <<"~", "env">>]}

\* cls(basepath=..., saved_data_path=basepath / "saved_data", ...)
Config(basepath, backend, jobs) ==
    [basepath |-> basepath, saved_data_path |-> Append(basepath, "saved_data"),
     parallel_backend |-> backend, parallel_jobs |-> jobs]

Raised == [raised |-> TRUE]

\* Config.default: `if basepath_str:` is false for None and for ""
Config_default(env) ==
    IF env.set /\ env.value # <<>>
    THEN Config(expanduser(env.value), "loky", 32)
    ELSE Config(Home \o <<"extreme-weather-bench-paper">>, "loky", 32)

\* lines 46-62: the file is parsed and the Config is built from it
LoadConfig(f) ==
    IF ~f.toml THEN Raised
    ELSE Config(expanduser(IF "basepath" \in DOMAIN f.paths THEN f.paths.basepath
                           ELSE Home \o <<"extreme-weather-bench-paper">>),
                "loky", 32)

\* variant: the user's configuration directory is looked at first
Config_from_file_HomeFirst(cwd, home, env) ==
    IF home.exists THEN LoadConfig(home)
    ELSE IF cwd.exists THEN LoadConfig(cwd)
    ELSE Config_default(env)

\* Config.from_file(None)
Config_from_file(cwd, home, env) ==
    IF cwd.exists THEN LoadConfig(cwd)
    ELSE IF home.exists THEN LoadConfig(home)
    ELSE Config_default(env)

InitConfig ==
    /\ Parked("ewb_paper.config")
    /\ pc = "call"
    /\ inp \in [cwd : CwdFiles, home : HomeFiles, env : Getenv]
    /\ out = <<>>

\* Config.from_file()
FromFile ==
    /\ pc = "call"
    /\ out' = <<Config_from_file(inp.cwd, inp.home, inp.env)>>
    /\ pc' = "called"
    /\ UNCHANGED <<inp, progvars>>

\* Config.default() in the same environment
Default ==
    /\ pc = "called"
    /\ out' = out \o <<Config_default(inp.env)>>
    /\ pc' = "defaulted"
    /\ UNCHANGED <<inp, progvars>>

\* ewb_paper/data/run_severe_cases.py: the --run_<model> flags of main and
\* the file name each block hands to to_pickle
SevereFiles ==
    [aifs |-> "aifs_severe_results.pkl", hres |-> "hres_severe_results.pkl",
     fourv2 |-> "fourv2_severe_results.pkl", gc |-> "gc_severe_results.pkl",
     pangu |-> "pang_severe_results.pkl"]

\* `basepath = str(config.saved_data_path) + "/"`, then
\* `to_pickle(basepath + "saved_data/<model>_severe_results.pkl")`: the
\* components of the path the string names
severe_results_path(config, m) ==
    config.saved_data_path \o <<"saved_data", SevereFiles[m]>>

\* main() of run_severe_cases with a set of flags, every evaluation
\* returning: config = Config.default(), then one to_pickle per flag
SevereMain ==
    /\ pc = "call"
    /\ \E f \in SUBSET DOMAIN SevereFiles :
         out' = <<Config_default(inp.env),
                  {severe_results_path(Config_default(inp.env), m) : m \in f}>>
    /\ pc' = "severe_done"
    /\ UNCHANGED <<inp, progvars>>

NextConfig ==
    \/ FromFile
    \/ Default
    \/ SevereMain

SpecConfig == InitConfig /\ [][NextConfig]_vars

\* ================================================================== claims
AllReturned == \A i \in DOMAIN slots : slots[i] # Pending

InHresMerge == driver = "compute_tc_tracks" /\ Model = "HRES"

\* the entries of a results list that belong to case id c
ResultsOf(rs, c) == SelectSeq(rs, LAMBDA r : r[1] = c)

\* C1: in the HRES unit of compute_tc_tracks the merged results list holds,
\* for every case, exactly one tuple: the primary tuple when the primary
\* forecast result was non-empty, otherwise the tuple the fallback run
\* returned for that case; update_tc_dict stores that tuple's forecast data.
C1_MergeKeepsPrimaryElseFallback ==
    (pc \in {"update", "dump"} /\ InHresMerge) =>
        \A i \in DOMAIN hres_primary :
            LET p    == hres_primary[i]
                mine == ResultsOf(results, p[1])
                fb   == ResultsOf(bb_results, p[1])
            IN /\ Len(mine) = 1
               /\ IF Len(p[4]) > 0
                  THEN mine[1] = p
                  ELSE Len(fb) = 1 /\ mine[1] = fb[1]
               /\ pc = "dump" =>
                    tc_dict[p[1]].forecast_data["HRES"] =
                        (IF Len(p[4]) > 0 THEN p[4] ELSE fb[1][4])

\* C1 witness: primary [A: data, B: empty], fallback [B: data], merged
C1_Witness ==
    /\ pc = "dump"
    /\ InHresMerge
    /\ \E i, j \in DOMAIN hres_primary :
          /\ Len(hres_primary[i][4]) > 0
          /\ Len(hres_primary[j][4]) = 0
          /\ Len(ResultsOf(bb_results, hres_primary[j][1])[1][4]) > 0

\* C2: process_case is invoked on the fallback source for exactly the cases
\* whose primary result was empty, once each: never for a case with a
\* non-empty primary result, and for every empty one by the time of the merge.
C2_FallbackOnlyForEmpty ==
    (driver = "compute_tc_tracks" /\ Alive) =>
        LET empties == {hres_primary[i][1] : i \in
                          {k \in DOMAIN hres_primary : Len(hres_primary[k][4]) = 0}}
            called  == {c \in CaseIds(Catalog) : evals[<<"BB_HRES", c>>] > 0}
        IN /\ called \subseteq empties
           /\ \A c \in called : evals[<<"BB_HRES", c>>] = 1
           /\ (pc \in {"update", "dump"} /\ Model = "HRES") =>
                 /\ called = empties
                 /\ Cardinality(called) = Len(empty_cases(hres_primary))

\* C2 witness: two cases, one empty on the primary source, one fallback call
C2_Witness ==
    /\ driver = "compute_tc_tracks"
    /\ pc = "update"
    /\ Model = "HRES"
    /\ Len(hres_primary) = 2
    /\ Len(empty_cases(hres_primary)) = 1
    /\ evals[<<"BB_HRES", empty_case_ids(hres_primary)[1]>>] = 1

\* C3: the list run_tc_tracker is about to return has one tuple per case of
\* the collection it was given, carrying that case's id, so the ids of the
\* output are the ids of the input, in whatever order the workers returned.
C3_OneResultPerCase ==
    (driver = "compute_tc_tracks" /\ pc = "running" /\ AllReturned) =>
        /\ Len(slots) = Len(RunCases)
        /\ \A i \in DOMAIN slots : slots[i][1] = RunCases[i].case_id_number
        /\ {slots[i][1] : i \in DOMAIN slots} = CaseIds(RunCases)

\* C3 witness: a run over two cases with every worker back
C3_Witness ==
    /\ driver = "compute_tc_tracks"
    /\ pc = "running"
    /\ Len(slots) = 2
    /\ AllReturned

\* C4: an exception raised by the evaluation of one case never ends the run:
\* the process is never found terminated by a case's exception.
C4_CaseFailureIsolated ==
    ~(driver = "compute_tc_tracks" /\ pc = "aborted" /\ error = "case")

\* C5: a source that fails to open never ends the process while another
\* selected model is still to run.
C5_OpenFailureIsolated ==
    ~(pc = "aborted" /\ error = "open" /\ NextSel(blk, flags) <= NumBlocks)

TcPath == ResultPath("compute_tc_tracks", "HRES")

\* the selected blocks of this invocation that lie before the current one
DoneBlocks == {j \in 1..NumBlocks : j < blk /\ Blocks(driver)[j] \in flags}

\* the last of them
PrevSel == CHOOSE j \in DoneBlocks : \A k \in DoneBlocks : k <= j

\* C6: when compute_tc_tracks was killed with the HRES results checkpointed
\* and a restarted run has completed the two other models, tc_tracks.pkl still
\* holds the HRES results of every case and the restarted run evaluated no
\* case for HRES.
C6_CheckpointSurvivesRestart ==
    ( /\ driver = "compute_tc_tracks"
      /\ restarted
      /\ pc = "done"
      /\ ewb_cases # <<>>
      /\ "HRES" \in survived
      /\ {"CIRA_FOURv2", "BB_AIFS"} \subseteq flags ) =>
        /\ HoldsModel(disk[TcPath], "HRES", CaseIds(ewb_cases))
        /\ \A c \in CaseIds(Catalog) :
              evals[<<"WB2_HRES", c>>] = 0 /\ evals[<<"BB_HRES", c>>] = 0

\* C7: while a model block is being evaluated, and when the blocks are over,
\* the results of every selected block before it are already on disk.
C7_SavedBeforeNextModel ==
    (pc \in {"construct", "running", "lib_run", "final", "done"}) =>
        \A j \in DoneBlocks :
            IF driver = "compute_tc_tracks"
            THEN HoldsModel(disk[TcPath], Blocks(driver)[j], CaseIds(ewb_cases))
            ELSE Loadable(disk[ResultPath(driver, Blocks(driver)[j])])

\* C7 witness: the first run of compute_tc_tracks evaluates its second block
\* after the HRES block, with cases to evaluate
C7_Witness ==
    /\ driver = "compute_tc_tracks"
    /\ ~restarted
    /\ pc = "running"
    /\ blk = 2
    /\ "HRES" \in flags
    /\ ewb_cases # <<>>

\* C8: a reader of a checkpoint path never finds a file it cannot load whole:
\* every file that exists holds one complete pickle stream.
C8_AtomicReplace ==
    \A p \in DOMAIN disk : disk[p].exists => Loadable(disk[p])

\* C9: once a save has completed, loading the checkpoint returns the table
\* that was saved (the nested dictionary of compute_tc_tracks, the result
\* table of a run_*_cases block), whatever the file held before.
C9_SaveLoadRoundTrip ==
    /\ ( /\ driver = "compute_tc_tracks"
         /\ \/ pc \in {"construct", "running", "update", "final"} /\ DoneBlocks # {}
            \/ pc = "done" ) =>
            /\ Loadable(disk[TcPath])
            /\ LoadDict(disk[TcPath]) = tc_dict
    /\ ( /\ driver # "compute_tc_tracks"
         /\ pc \in {"construct", "lib_run", "to_pickle", "done"}
         /\ DoneBlocks # {} ) =>
            LET f == disk[ResultPath(driver, Blocks(driver)[PrevSel])]
            IN Loadable(f) /\ LoadTable(f) = results

\* C9 witness: the previous process left a loadable tc_tracks.pkl holding
\* HRES results, and a restarted run has saved a dictionary without them
C9_Witness ==
    /\ driver = "compute_tc_tracks"
    /\ restarted
    /\ "HRES" \in survived
    /\ pc = "final"
    /\ tc_dict # EmptyDict
    /\ "HRES" \notin flags

NoDupKeys(t) == \A i, j \in DOMAIN t : Key(t[i]) = Key(t[j]) => i = j

\* C10: no result table a driver writes holds two records with the same
\* (case_id, forecast source, target source, metric, lead_time) key: neither
\* a saved run_*_cases table nor the merged HRES list of compute_tc_tracks.
C10_UniqueKeys ==
    /\ driver # "compute_tc_tracks" =>
          \A p \in DOMAIN disk :
              Loadable(disk[p]) => NoDupKeys(LoadTable(disk[p]))
    /\ (driver = "compute_tc_tracks" /\ pc = "update") =>
          \A i, j \in DOMAIN results : results[i][1] = results[j][1] => i = j
\* two tables hold a record of the same (case_id, metric, lead_time)
SharesKey(a, b) ==
    \E i \in DOMAIN a, j \in DOMAIN b :
        /\ a[i].case_id = b[j].case_id
        /\ a[i].metric = b[j].metric
        /\ a[i].lead_time = b[j].lead_time

\* C11: in a driver that splits the HRES cases by date, pd.concat never
\* returns normally (so that to_pickle goes on to write its result) when the
\* two sub-run tables share a (case_id, metric, lead_time) key.
C11_ConcatRejectsDuplicates ==
    ( /\ driver \in {"run_tc_cases", "run_heat_cases"}
      /\ pc = "to_pickle_write"
      /\ Len(tables) = 2 ) => ~SharesKey(tables[1], tables[2])
\* C12: merging the primary list with an already merged list gives the merged
\* list again: merge(P, merge(P, F)) = merge(P, F).
C12_MergeIdempotent ==
    (pc = "remerged") => out[2] = out[1]
\* how often a case occurs in a list of cases
Occurs(c, coll) == Cardinality({i \in DOMAIN coll : coll[i] = c})

Straddles(c) == c.start_date <= Cutoff /\ Cutoff <= c.end_date

\* C13: after the split no case is in both partitions, a case that straddles
\* the cutoff (start_date <= cutoff <= end_date) is in neither, and every
\* other case is in exactly one of them, once: early when it ends before the
\* cutoff, late when it starts after it.
C13_PartitionDisjointWithGap ==
    (pc \in {"partitioned", "partitioned_again"}) =>
        \A i \in DOMAIN inp :
            LET c == inp[i]
                e == Occurs(c, out[1])
                l == Occurs(c, out[2])
            IN /\ ~(e > 0 /\ l > 0)
               /\ Straddles(c) => (e = 0 /\ l = 0)
               /\ ~Straddles(c) => e + l = 1
               /\ e = 1 <=> c.end_date < Cutoff
               /\ l = 1 <=> c.start_date > Cutoff

\* C13 witness: a collection with a case ending on the cutoff day, left out,
\* next to a case that went to the late partition
C13_Witness ==
    /\ pc = "partitioned"
    /\ \E i, j \in DOMAIN inp :
          /\ inp[i].end_date = Cutoff
          /\ inp[i].start_date < Cutoff
          /\ Occurs(inp[i], out[1]) = 0
          /\ Occurs(inp[j], out[2]) = 1

\* C14: a case whose end_date is the cutoff day is in the early partition and
\* not in the late one, on every run.
C14_BoundaryCaseIsEarly ==
    (pc \in {"partitioned", "partitioned_again"}) =>
        \A i \in DOMAIN inp :
            inp[i].end_date = Cutoff =>
                \A k \in 1..(Len(out) \div 2) :
                    /\ Occurs(inp[i], out[2 * k - 1]) = 1
                    /\ Occurs(inp[i], out[2 * k]) = 0
\* C15: for every two DateInterval values, in whatever order their fields
\* are, A.contains(B) implies A.overlaps(B).
C15_ContainsImpliesOverlaps ==
    /\ (pc \in {"compared", "compared_back"}) => (out[1] => out[2])
    /\ (pc = "compared_back") => (out[3] => out[4])
UnitSources(m) == IF m = "HRES" THEN {"WB2_HRES", "BB_HRES"} ELSE {PrimarySource(m)}

\* position of a model among the blocks of the driver
BlockOf(m) == CHOOSE j \in 1..NumBlocks : Blocks(driver)[j] = m

\* every case of the collection was evaluated once on the source
RanOnAll(src) == \A c \in CaseIds(ewb_cases) : evals[<<src, c>>] = 1

\* C17: the steps of a unit of compute_tc_tracks come in order.  The fallback
\* run exists only after the primary run returned a result for every case,
\* some of them empty; the list handed to update_tc_dict is the merge of the
\* completed runs and has a result of every case; in a first run
\* tc_tracks.pkl holds a model only when that model's unit is over; and once
\* a unit is over its sources are not evaluated again by the invocation.
C17_UnitStepsInOrder ==
    /\ [](driver = "compute_tc_tracks" =>
          /\ (Alive /\ (phase = "fallback" \/ \E c \in CaseIds(Catalog) :
                                                evals[<<"BB_HRES", c>>] > 0)) =>
                /\ RanOnAll("WB2_HRES")
                /\ Len(hres_primary) = Len(ewb_cases)
                /\ \A i \in DOMAIN hres_primary : hres_primary[i] # Pending
                /\ empty_cases(hres_primary) # <<>>
          /\ (pc \in {"update", "dump"}) =>
                /\ RanOnAll(PrimarySource(Model))
                /\ {results[i][1] : i \in DOMAIN results} = CaseIds(ewb_cases)
                /\ \A i \in DOMAIN results : results[i] # Pending
                /\ Model = "HRES" => results = merge(hres_primary, bb_results)
          /\ (~restarted /\ Loadable(disk[TcPath])) =>
                \A c \in DOMAIN LoadDict(disk[TcPath]) :
                    \A m \in ModelsIn(LoadDict(disk[TcPath])[c].forecast_data) :
                        m \in flags /\ BlockOf(m) < blk)
    /\ [][(driver = "compute_tc_tracks" /\ Alive /\ pc' \notin {"aborted", "dead"}) =>
             \A j \in DoneBlocks : \A src \in UnitSources(Blocks(driver)[j]) :
                 \A c \in CaseIds(Catalog) :
                     evals'[<<src, c>>] = evals[<<src, c>>]]_vars

\* C17 witness: the HRES unit went through primary run, fallback run, merge
\* and dump, and the next unit is being evaluated
C17_Witness ==
    /\ driver = "compute_tc_tracks"
    /\ ~restarted
    /\ pc = "running"
    /\ blk > 1
    /\ bb_results # <<>>
    /\ Len(hres_primary) = 2
    /\ \E i \in DOMAIN slots : slots[i] # Pending

\* the rows of a table file come from the sources of block m
RowsOf(f, m) == \A i \in DOMAIN LoadTable(f) : LoadTable(f)[i].value \in BlockSources(m)

\* C18: in a run_*_cases driver every flag has its own to_pickle path, fixed
\* by the flag and the driver's event type; a step changes no file but the
\* one of the block that is writing, so the files of the other flags stay as
\* they are; a loadable file of a flag holds rows of that flag's sources
\* only; and when a first run is over there is a file for exactly the flags
\* that were selected.
C18_OnePathPerFlag ==
    /\ [](driver # "compute_tc_tracks" =>
          /\ \A i, j \in DOMAIN ModelFlags(driver) :
                i # j => to_pickle_path(driver, ModelFlags(driver)[i])
                            # to_pickle_path(driver, ModelFlags(driver)[j])
          /\ \A m \in Range(Blocks(driver)) :
                /\ ResultPath(driver, m) = to_pickle_path(driver, m)
                /\ Loadable(disk[ResultPath(driver, m)]) =>
                      RowsOf(disk[ResultPath(driver, m)], m)
          /\ (pc = "done" /\ ~restarted) =>
                \A m \in Range(Blocks(driver)) :
                    m \in flags <=> Loadable(disk[ResultPath(driver, m)]))
    /\ [][driver # "compute_tc_tracks" =>
             IF pc \in {"to_pickle", "to_pickle_write"}
             THEN /\ Model \in flags
                  /\ \A m \in Range(Blocks(driver)) \ {Model} :
                        disk'[ResultPath(driver, m)] = disk[ResultPath(driver, m)]
             ELSE disk' = disk]_vars

\* C18 witness: a first run of a run_*_cases driver with both flags is over
\* and both files hold rows
C18_Witness ==
    /\ driver # "compute_tc_tracks"
    /\ ~restarted
    /\ pc = "done"
    /\ \A m \in Range(Blocks(driver)) :
          /\ m \in flags
          /\ Loadable(disk[ResultPath(driver, m)])
          /\ LoadTable(disk[ResultPath(driver, m)]) # <<>>

\* the case lies inside the archive: it starts on 2021-01-02 or later and
\* ends on 2024-12-31 or before
InsideArchive(c) == c.start_date >= 2021010200 /\ c.end_date <= 2024123123

\* the case shares days with the archive without lying inside it
PartlyInArchive(c) ==
    /\ ~InsideArchive(c)
    /\ c.start_date <= 2024123123
    /\ c.end_date >= 2021010200

C20_UpdateOrderIndependent ==
    (pc = "updated_both") =>
        /\ out[2] = out[1]
        /\ \A i \in DOMAIN inp[3] :
              out[2][inp[3][i][1]].forecast_data["HRES"] = inp[3][i][4]

\* C20 witness: two results with different data were applied in both orders
\* to a dictionary that already held one of the cases
C20_Witness ==
    /\ pc = "updated_both"
    /\ Len(inp[2]) = 2
    /\ inp[3] # inp[2]
    /\ inp[2][1][4] # inp[2][2][4]
    /\ inp[1] # EmptyDict
    /\ 1 \in {inp[2][1][1], inp[2][2][1]}

\* C21: while the cases of a run are dispatched on a forecast object that is
\* an InMemoryForecast the pool is thread-based, and a process-based pool
\* serves remote sources only.
C21_InMemoryOnThreads ==
    (driver = "compute_tc_tracks" /\ pc = "running") =>
        (ForecastClass(CurrentSource) = "InMemoryForecast"
            <=> PoolKind(parallel_config.backend) = "threads")

\* the file from_file is said to use, and what is said when there is none
SaidToUse ==
    IF inp.cwd.exists THEN LoadConfig(inp.cwd)
    ELSE IF inp.home.exists THEN LoadConfig(inp.home)
    ELSE out[1]

\* C22 as stated: from_file() uses ./config.toml if it exists, else the file
\* of the user's configuration directory if it exists, else what
\* Config.default gives, whose basepath is the value of EWB_PAPER_BASEPATH
\* whenever the variable is set and ~/extreme-weather-bench-paper otherwise.
C22_FromFileOrder ==
    (pc = "defaulted") =>
        /\ out[1] = SaidToUse
        /\ (~inp.cwd.exists /\ ~inp.home.exists) => out[1] = out[2]
        /\ out[2].basepath =
              IF inp.env.set THEN expanduser(inp.env.value)
              ELSE <<"/", "home", "user", "extreme-weather-bench-paper">>

\* C22 amended: the same, with the basepath of Config.default being the
\* value of EWB_PAPER_BASEPATH when the variable is set to a non-empty
\* string, and ~/extreme-weather-bench-paper when it is unset or empty.
C22_FromFileOrderNonEmpty ==
    (pc = "defaulted") =>
        /\ out[1] = SaidToUse
        /\ (~inp.cwd.exists /\ ~inp.home.exists) => out[1] = out[2]
        /\ out[2].basepath =
              IF inp.env.set /\ inp.env.value # <<>>
              THEN expanduser(inp.env.value)
              ELSE <<"/", "home", "user", "extreme-weather-bench-paper">>
        /\ out[2].saved_data_path = Append(out[2].basepath, "saved_data")

\* C22 witness: both files exist with different basepaths and the variable
\* is set; from_file returned the Config of ./config.toml
C22_Witness ==
    /\ pc = "defaulted"
    /\ inp.cwd.toml /\ inp.home.toml
    /\ inp.env.set /\ inp.env.value # <<>>
    /\ out[1].basepath = <<"/", "srv", "cwd">>
    /\ out[2].basepath # out[1].basepath

\* target_data of every case that has one in dictionary a is the same in b
KeepsTargets(a, b) ==
    \A c \in DOMAIN a :
        a[c].target_data # "None" =>
            c \in DOMAIN b /\ b[c].target_data = a[c].target_data

\* C23: through the calls of update_tc_dict of a process (a model's call on
\* the dictionary earlier calls left, then the next model's call on its
\* result) a target_data that is set stays what it was, whatever target the
\* later results carry.
C23_TargetSetOnce ==
    (pc = "updated_next") =>
        /\ KeepsTargets(inp[1], out[1])
        /\ KeepsTargets(inp[1], out[2])
        /\ KeepsTargets(out[1], out[3])

\* C23 witness: the dictionary held case 1 with its target, a later call
\* carried another target for case 1 and the calls are over
C23_Witness ==
    /\ pc = "updated_next"
    /\ 1 \in DOMAIN inp[1]
    /\ \E i \in DOMAIN inp[2] :
          inp[2][i][1] = 1 /\ inp[2][i][3] # inp[1][1].target_data
    /\ out[3][1].target_data = inp[1][1].target_data

\* C24: in a driver that splits its HRES cases at the cutoff, a case the
\* WeatherBench2 archive was evaluated on is an early case, a case the
\* Brightband archive was evaluated on is a late case, and no case was
\* evaluated on both.
C24_ArchivesOnOwnPartition ==
    (driver \in {"run_heat_cases", "run_tc_cases"}) =>
        \A c \in CaseIds(ewb_cases) :
            /\ evals[<<"WB2_HRES", c>>] > 0 => c \in CaseIds(early_cases(ewb_cases))
            /\ evals[<<"BB_HRES", c>>] > 0 => c \in CaseIds(later_cases(ewb_cases))
            /\ ~(evals[<<"WB2_HRES", c>>] > 0 /\ evals[<<"BB_HRES", c>>] > 0)

\* the (case, model) pairs a dictionary has forecast data for
Entries(d) == UNION {{<<c, m>> : m \in DOMAIN d[c].forecast_data} : c \in DOMAIN d}

\* C25: from the completion of an update_tc_dict call until the next write
\* begins, tc_tracks.pkl loads to the in-memory tc_dict; and while the
\* invocation lives tc_dict loses none of its (case, model) entries, so
\* what the file holds after a later model's call includes what it held
\* after an earlier one.
C25_DiskFollowsMemory ==
    /\ []((driver = "compute_tc_tracks" /\ DoneBlocks # {}
             /\ pc \in {"construct", "running", "update", "final"}) =>
            /\ Loadable(disk[TcPath])
            /\ Entries(LoadDict(disk[TcPath])) = Entries(tc_dict)
            /\ LoadDict(disk[TcPath]) = tc_dict
            /\ \A j \in DoneBlocks : \A c \in CaseIds(ewb_cases) :
                  <<c, Blocks(driver)[j]>> \in Entries(LoadDict(disk[TcPath])))
    /\ [][(driver = "compute_tc_tracks" /\ Alive /\ pc' \notin {"aborted", "dead"}) =>
             Entries(tc_dict) \subseteq Entries(tc_dict')]_vars

\* C25 witness: two models of a first run have completed their calls and a
\* third is being evaluated
C25_Witness ==
    /\ driver = "compute_tc_tracks"
    /\ ~restarted
    /\ pc = "running"
    /\ blk = 3
    /\ {"HRES", "CIRA_FOURv2"} \subseteq flags
    /\ Len(ewb_cases) = 2
    /\ Entries(LoadDict(disk[TcPath])) = CaseIds(ewb_cases) \X {"HRES", "CIRA_FOURv2"}

\* the entry of case c for model m in dictionary d, "absent" if there is none
EntryOf(d, c, m) ==
    IF c \in DOMAIN d /\ m \in DOMAIN d[c].forecast_data
    THEN d[c].forecast_data[m] ELSE <<"absent">>

\* dictionary b differs from a, for the cases of rs, in forecast_data[m] and
\* in a target_data that was unset, and in nothing else
FrameOf(a, b, rs, m) ==
    LET ids == {rs[i][1] : i \in DOMAIN rs}
    IN /\ DOMAIN b = DOMAIN a \cup ids
       /\ \A c \in DOMAIN a \ ids : b[c] = a[c]
       /\ \A c \in DOMAIN b : \A n \in {"HRES", "CIRA_FOURv2", "BB_AIFS"} \ {m} :
             EntryOf(b, c, n) = EntryOf(a, c, n)
       /\ \A c \in DOMAIN a \cap ids :
             a[c].target_data # "None" => b[c].target_data = a[c].target_data
       /\ \A c \in ids : DOMAIN b[c].forecast_data =
             (IF c \in DOMAIN a THEN DOMAIN a[c].forecast_data ELSE {}) \cup {m}

\* C26: a call of update_tc_dict for model m changes, for the cases of its
\* results, forecast_data[m] and an unset target_data only: the entries of
\* the other models and the cases outside the results are as before.
C26_UpdateFrame ==
    (pc = "updated_next") =>
        /\ FrameOf(inp[1], out[1], inp[2], "HRES")
        /\ FrameOf(inp[1], out[2], inp[3], "HRES")
        /\ FrameOf(out[1], out[3], inp[3], "CIRA_FOURv2")

\* C26 witness: the dictionary held case 1 with data of another model, the
\* results were for another case only, and both calls are over
C26_Witness ==
    /\ pc = "updated_next"
    /\ EntryOf(inp[1], 1, "CIRA_FOURv2") = <<"CIRA_FOURv2">>
    /\ inp[2] # <<>>
    /\ \A i \in DOMAIN inp[2] : inp[2][i][1] # 1
    /\ out[1][1] = inp[1][1]
    /\ EntryOf(out[3], 1, "CIRA_FOURv2") = <<"CIRA_FOURv2">>

\* C27: no step of an invocation of compute_tc_tracks without a model flag
\* evaluates a case or changes a tc_tracks.pkl that is there.
C27_NoFlagsNoEffect ==
    [][(driver = "compute_tc_tracks" /\ Alive /\ flags = {}
          /\ Loadable(disk[TcPath])) =>
            /\ evals' = evals
            /\ disk'[TcPath] = disk[TcPath]]_vars

\* the forecast sources of a block of the plot-data loops
ArOwnSources(m) ==
    CASE m = "hres" -> {"WB2_HRES", "BB_HRES"}
      [] m = "cira_fourv2" -> {"CIRA_FOURv2"}
      [] m = "cira_gc" -> {"CIRA_GC"}
      [] m = "bb_graphcast" -> {"BB_GC"}
      [] OTHER -> {"BB_AIFS"}

\* C28: when compute_ar_plot_data or compute_cbss_pph_examples has saved its
\* graphics files, the file of every selected model holds a result of every
\* case, each computed from a forecast source of that model.
C28_OwnResultsInFile ==
    (driver \in {"compute_ar_plot_data", "compute_cbss_pph_examples"}
       /\ pc = "done") =>
        \A m \in flags :
            LET rows == LoadTable(disk[ArPath(m)])
            IN /\ {rows[i][1] : i \in DOMAIN rows} = CaseIds(ewb_cases)
               /\ \A i \in DOMAIN rows :
                     \A j \in DOMAIN rows[i][3] : rows[i][3][j] \in ArOwnSources(m)

\* C29: an invocation of compute_tc_tracks evaluates no case more than once
\* on any source, so at most twice for HRES (the primary source and, for a
\* case the fallback follows, the fallback source, whatever the fallback
\* returned); when it is over it has evaluated every case exactly once on the
\* source of every other selected model and on the primary HRES source; and
\* an invocation that has started comes to its end.
C29_BoundedEvaluations ==
    /\ [](driver = "compute_tc_tracks" =>
            /\ \A k \in DOMAIN evals : evals[k] <= 1
            /\ \A c \in CaseIds(Catalog) \ CaseIds(ewb_cases) :
                  \A src \in Sources : evals[<<src, c>>] = 0
            /\ \A m \in Range(Blocks(driver)) \ flags :
                  \A c \in CaseIds(Catalog) : evals[<<PrimarySource(m), c>>] = 0
            /\ pc = "done" =>
                  \A m \in flags : \A c \in CaseIds(ewb_cases) :
                      evals[<<PrimarySource(m), c>>] = 1)
    /\ (driver = "compute_tc_tracks" /\ Alive) ~> (pc \in {"done", "aborted", "dead"})

\* C29 witness: an invocation with HRES and another model is over; a case
\* was evaluated on both HRES sources and is still empty after the fallback
C29_Witness ==
    /\ driver = "compute_tc_tracks"
    /\ pc = "done"
    /\ "HRES" \in flags
    /\ "BB_AIFS" \in flags
    /\ \E i \in DOMAIN bb_results :
          /\ Len(bb_results[i][4]) = 0
          /\ evals[<<"WB2_HRES", bb_results[i][1]>>] = 1
          /\ evals[<<"BB_HRES", bb_results[i][1]>>] = 1
    /\ \A c \in CaseIds(ewb_cases) : evals[<<"BB_AIFS", c>>] = 1

\* C30: every results file run_severe_cases of ewb_paper writes is
\* <model>_severe_results.pkl directly inside Config.saved_data_path, which
\* is basepath/saved_data.
C30_SevereFilesInSavedData ==
    (pc = "severe_done") =>
        /\ out[1].saved_data_path = Append(out[1].basepath, "saved_data")
        /\ \A p \in out[2] :
              /\ SubSeq(p, 1, Len(p) - 1) = out[1].saved_data_path
              /\ \E m \in DOMAIN SevereFiles : p[Len(p)] = SevereFiles[m]
====
